---- MODULE Spec2Model ----
(***************************************************************************)
(* Model of the PSoC6 bare-metal I2C platform abstraction layer            *)
(* (pal/COMPONENT_PSOC6_BAREMETAL/COMPONENT_CM4/pal_i2c.c), specification  *)
(* Spec, and of its millisecond clock (pal_os_timer.c), specification      *)
(* TimerSpec.                                                              *)
(*                                                                         *)
(* The mediator's own state is the two file-scope variables               *)
(* pal_i2c_init_status and gp_pal_i2c_current_ctx.  The cyhal I2C driver   *)
(* it calls is an external collaborator; its state (handle acquired,       *)
(* events enabled, asynchronous transfer pending, programmed frequency)    *)
(* is kept in the i2c_* variables and changes only through the calls the   *)
(* mediator makes and through the hardware interrupt.                      *)
(*                                                                         *)
(* Every API call and every interrupt entry is one action.  What the call  *)
(* did is left in `last`: the operation, its context argument, its return  *)
(* status and the ordered trace of the hardware calls and upper-layer      *)
(* callback invocations it made.                                           *)
(***************************************************************************)
EXTENDS Integers, Sequences, FiniteSets, TLC

VARIABLES
    pal_i2c_init_status,      \* static bool pal_i2c_init_status
    gp_pal_i2c_current_ctx,   \* const pal_i2c_t * gp_pal_i2c_current_ctx
    i2c_acquired,             \* driver: handle initialised and not freed
    i2c_irq_enabled,          \* driver: handler registered, events enabled
    i2c_pending,              \* driver: asynchronous transfer in flight
    i2c_freq,                 \* driver: programmed bus frequency in Hz
    txn_owner,                \* history: context whose transfer was accepted
    init_ctx,                 \* history: context of the last successful init
    fault,                    \* the processor took a fault (null dereference)
    last                      \* what the last operation did

vars == <<pal_i2c_init_status, gp_pal_i2c_current_ctx, i2c_acquired,
          i2c_irq_enabled, i2c_pending, i2c_freq, txn_owner, init_ctx,
          fault, last>>

(***************************************************************************)
(* Bounds                                                                  *)
(***************************************************************************)
\* number of well-formed caller contexts (non-null handle and handler)
NumCtx == 2
\* hardware error sub-codes range over 0..MaxErrCode
MaxErrCode == 6

(***************************************************************************)
(* Program constants                                                       *)
(***************************************************************************)
PAL_I2C_MASTER_MAX_BITRATE == 400
I2C_MASTER_FREQUENCY_HZ == PAL_I2C_MASTER_MAX_BITRATE * 1000

NULL == 0

PAL_STATUS_SUCCESS == "PAL_STATUS_SUCCESS"
PAL_STATUS_FAILURE == "PAL_STATUS_FAILURE"
PAL_STATUS_I2C_BUSY == "PAL_STATUS_I2C_BUSY"
PalStatus == {PAL_STATUS_SUCCESS, PAL_STATUS_FAILURE, PAL_STATUS_I2C_BUSY}

PAL_I2C_EVENT_SUCCESS == "PAL_I2C_EVENT_SUCCESS"
PAL_I2C_EVENT_ERROR == "PAL_I2C_EVENT_ERROR"
PAL_I2C_EVENT_BUSY == "PAL_I2C_EVENT_BUSY"

CYHAL_I2C_MASTER_ERR_EVENT == "ERR"
CYHAL_I2C_MASTER_WR_CMPLT_EVENT == "WR_CMPLT"
CYHAL_I2C_MASTER_RD_CMPLT_EVENT == "RD_CMPLT"
\* the three event classes pal_i2c_init enables
EnabledEvents == {CYHAL_I2C_MASTER_WR_CMPLT_EVENT,
                  CYHAL_I2C_MASTER_RD_CMPLT_EVENT,
                  CYHAL_I2C_MASTER_ERR_EVENT}

(***************************************************************************)
(* Caller contexts (pal_i2c_t).  Contexts 1..NumCtx are well formed.       *)
(* BadCtx has a null p_i2c_hw_config; NoCbCtx has a null                   *)
(* upper_layer_event_handler.  A context pointer may also be NULL.         *)
(***************************************************************************)
GoodCtx == 1..NumCtx
BadCtx == NumCtx + 1
NoCbCtx == NumCtx + 2
CtxPtr == {NULL} \cup GoodCtx \cup {BadCtx, NoCbCtx}

\* the one I2C master object all usable contexts refer to
MasterObj == 1

p_i2c_hw_config(c) == IF c = BadCtx THEN NULL ELSE MasterObj
upper_layer_event_handler(c) == IF c = NoCbCtx THEN NULL ELSE c
p_upper_layer_ctx(c) == c

(***************************************************************************)
(* cy_rslt_t: the low 16 bits are the error sub-code, the bits above hold  *)
(* the result type and the module.  A failing driver call returns a        *)
(* non-zero result even for sub-code 0.                                    *)
(***************************************************************************)
CY_RSLT_SUCCESS == 0
I2cError(code) == (2 ^ 17) + code
CY_RSLT_GET_CODE(rslt) == rslt % (2 ^ 16)

(***************************************************************************)
(* Trace entries                                                           *)
(***************************************************************************)
\* outcome of a call made through a null pointer or a released object
FAULT == 0 - 1
\* no driver result in this step
NO_RSLT == 0 - 2

\* a driver call f with argument a that returned r
Hw(f, a, r) == [k |-> "hw", f |-> f, h |-> NULL, a |-> a, e |-> "-", r |-> r]
\* an invocation of upper-layer handler h with user data a and event e
Cb(h, a, e) == [k |-> "cb", f |-> "-", h |-> h, a |-> a, e |-> e, r |-> 0]

Callbacks(tr) == SelectSeq(tr, LAMBDA x : x.k = "cb")
HwCalls(tr) == SelectSeq(tr, LAMBDA x : x.k = "hw")

\* The record an operation leaves: what it was called with, what it returned,
\* what it did, and the state it was called in (history).
Done(op, c, ret, tr, rslt, ev) ==
    [op |-> op, ctx |-> c, ret |-> ret, trace |-> tr, rslt |-> rslt, ev |-> ev,
     owner |-> txn_owner, pending |-> i2c_pending,
     inited |-> pal_i2c_init_status, acquired |-> i2c_acquired,
     arg |-> 0, tick |-> 1 - last.tick]

(***************************************************************************)
(* The millisecond clock (pal_os_timer.c).  The hardware timer counts       *)
(* microseconds up to its period and wraps to 0; the wrap raises the        *)
(* interrupt that isr_timer serves.  The foreground code reads the counter  *)
(* and seconds_count in two separate reads, and the interrupt can be taken  *)
(* between them.                                                            *)
(***************************************************************************)
VARIABLES
    seconds_count,            \* static uint32_t seconds_count
    timer_count,              \* hardware: the value cyhal_timer_read returns (us)
    operand_order,            \* the build: which operand of `+` is read first
    fg,                       \* foreground: position in the timer code and its locals
    time_last,                \* history: result of the latest get_time call
    tlast                     \* what the last timer call did

tvars == <<seconds_count, timer_count, operand_order, fg, time_last, tlast>>

\* number of timer wraps a behaviour follows
MaxWraps == 2

TIMER_PERIOD == 1000000

\* uint32_t values are kept as two 16-bit halves, so that sums, differences
\* and products wrap at 2^32 as they do in the program
HALF == 2 ^ 16
U32(n) == [hi |-> (n \div HALF) % HALF, lo |-> n % HALF]
U32Add(a, b) ==
    LET l == a.lo + b.lo IN
    [hi |-> (a.hi + b.hi + (l \div HALF)) % HALF, lo |-> l % HALF]
U32Sub(a, b) ==
    LET l == a.lo - b.lo IN
    [hi |-> (a.hi - b.hi - (IF l < 0 THEN 1 ELSE 0)) % HALF, lo |-> l % HALF]
U32Mul(a, k) ==
    LET l == a.lo * k IN
    [hi |-> ((a.hi * k) + (l \div HALF)) % HALF, lo |-> l % HALF]
U32Less(a, b) == (a.hi < b.hi) \/ (a.hi = b.hi /\ a.lo < b.lo)
UINT32_MAX == [hi |-> HALF - 1, lo |-> HALF - 1]

\* no get_time call has returned yet
NO_TIME == [hi |-> 0 - 1, lo |-> 0]

\* values of seconds_count a behaviour starts from: boot, and the second in
\* which the millisecond value wraps at 2^32 (2^32 \div 1000 = 4294967)
StartSeconds == {U32(0), U32(4294967)}
\* counter values the reads can observe within one period
CounterSamples == {0, 999, 6000, 296000, TIMER_PERIOD - 1}
\* the two orders in which a build can evaluate the operands of the sum
EvalOrders == {"counter", "seconds"}
\* uint16_t milliseconds arguments
DelayArgs == {0, 5}

FgIdle == [at |-> "idle", first |-> U32(0), ms |-> 0, start_time |-> U32(0),
           time_stamp_diff |-> U32(0), began |-> [sec |-> U32(0), cnt |-> 0]]

TimerIdle ==
    /\ timer_count = 0
    /\ fg = FgIdle
    /\ time_last = NO_TIME
    /\ tlast = [op |-> "boot", prev |-> NO_TIME, ret |-> U32(0), ms |-> 0,
                elapsed_us |-> 0]

I2cInit ==
    /\ pal_i2c_init_status = FALSE
    /\ gp_pal_i2c_current_ctx = NULL
    /\ i2c_acquired = FALSE
    /\ i2c_irq_enabled = FALSE
    /\ i2c_pending = "NONE"
    /\ i2c_freq = 0
    /\ txn_owner = NULL
    /\ init_ctx = NULL
    /\ fault = FALSE
    /\ last = [op |-> "boot", ctx |-> NULL, ret |-> "-", trace |-> <<>>,
               rslt |-> NO_RSLT, ev |-> {}, owner |-> NULL, pending |-> "NONE",
               inited |-> FALSE, acquired |-> FALSE, arg |-> 0, tick |-> 0]

Init ==
    /\ I2cInit
    /\ seconds_count = U32(0)
    /\ operand_order = "counter"
    /\ TimerIdle

(***************************************************************************)
(* get_status: classification of a failing driver result                   *)
(***************************************************************************)
\* variant: only 0..3 are listed as failures and everything else is busy
get_status_DefaultBusy(result) ==
    LET error_code == CY_RSLT_GET_CODE(result) IN
    IF error_code \in {0, 1, 2, 3} THEN PAL_STATUS_FAILURE
    ELSE PAL_STATUS_I2C_BUSY

\* variant: every failing driver result is reported as a busy bus
get_status_AlwaysBusy(result) == PAL_STATUS_I2C_BUSY

\* variant: the case for a pending transfer (sub-code 4) is missing
get_status_NoBusyCase(result) == PAL_STATUS_FAILURE

get_status(result) ==
    LET error_code == CY_RSLT_GET_CODE(result) IN
    IF error_code \in {0, 1, 2, 3, 5} THEN PAL_STATUS_FAILURE
    ELSE IF error_code = 4 THEN PAL_STATUS_I2C_BUSY
    ELSE PAL_STATUS_FAILURE

(***************************************************************************)
(* The cyhal driver, as seen from its call sites.                          *)
(***************************************************************************)
\* cyhal_i2c_init / cyhal_i2c_configure either succeed or fail
HalStepResults == {CY_RSLT_SUCCESS, I2cError(0)}

\* cyhal_i2c_master_transfer_async: a transfer requested while the previous
\* asynchronous one is pending is refused with sub-code 4; otherwise it is
\* accepted or refused with another sub-code.  On a handle that is not
\* initialised the call may also fault.
TransferResults ==
    (IF i2c_pending # "NONE"
     THEN {I2cError(4)}
     ELSE {CY_RSLT_SUCCESS} \cup {I2cError(c) : c \in (0..MaxErrCode) \ {4}})
    \cup (IF i2c_acquired THEN {} ELSE {FAULT})

\* _cyhal_i2c_set_peri_divider returns the data rate it set, or 0
DividerResults(hz) ==
    {0, hz} \cup (IF i2c_acquired THEN {} ELSE {FAULT})

\* event masks the driver hands to the registered handler: the non-empty
\* combinations of the enabled event classes
EventMasks == (SUBSET EnabledEvents) \ {{}}

(***************************************************************************)
(* invoke_upper_layer_callback                                             *)
(***************************************************************************)
invoke_upper_layer_callback(p_pal_i2c_ctx, event) ==
    <<Cb(upper_layer_event_handler(p_pal_i2c_ctx),
         p_upper_layer_ctx(p_pal_i2c_ctx), event)>>

(***************************************************************************)
(* i2c_master_error_detected_callback                                      *)
(***************************************************************************)
\* variant: the error path reports the error without aborting the transfer
i2c_master_error_detected_callback_NoAbort(p_pal_i2c_ctx) ==
    invoke_upper_layer_callback(gp_pal_i2c_current_ctx, PAL_I2C_EVENT_ERROR)

i2c_master_error_detected_callback(p_pal_i2c_ctx) ==
    <<Hw("cyhal_i2c_abort_async", p_i2c_hw_config(p_pal_i2c_ctx), NO_RSLT)>>
    \o invoke_upper_layer_callback(gp_pal_i2c_current_ctx, PAL_I2C_EVENT_ERROR)

(***************************************************************************)
(* i2c_master_event_handler: what the handler does for an event mask       *)
(***************************************************************************)
\* variant: the three tests are independent `if`s instead of an else-if chain
HandlerTrace_NoElse(event) ==
    (IF CYHAL_I2C_MASTER_ERR_EVENT \in event
     THEN i2c_master_error_detected_callback(gp_pal_i2c_current_ctx) ELSE <<>>)
    \o (IF CYHAL_I2C_MASTER_WR_CMPLT_EVENT \in event
        THEN invoke_upper_layer_callback(gp_pal_i2c_current_ctx, PAL_I2C_EVENT_SUCCESS)
        ELSE <<>>)
    \o (IF CYHAL_I2C_MASTER_RD_CMPLT_EVENT \in event
        THEN invoke_upper_layer_callback(gp_pal_i2c_current_ctx, PAL_I2C_EVENT_SUCCESS)
        ELSE <<>>)

\* variant: the completion flags are tested before the error flag
HandlerTrace_CompletionFirst(event) ==
    IF CYHAL_I2C_MASTER_WR_CMPLT_EVENT \in event
    THEN invoke_upper_layer_callback(gp_pal_i2c_current_ctx, PAL_I2C_EVENT_SUCCESS)
    ELSE IF CYHAL_I2C_MASTER_RD_CMPLT_EVENT \in event
    THEN invoke_upper_layer_callback(gp_pal_i2c_current_ctx, PAL_I2C_EVENT_SUCCESS)
    ELSE IF CYHAL_I2C_MASTER_ERR_EVENT \in event
    THEN i2c_master_error_detected_callback(gp_pal_i2c_current_ctx)
    ELSE <<>>

\* variant: the read-complete branch is missing
HandlerTrace_NoReadBranch(event) ==
    IF CYHAL_I2C_MASTER_ERR_EVENT \in event
    THEN i2c_master_error_detected_callback(gp_pal_i2c_current_ctx)
    ELSE IF CYHAL_I2C_MASTER_WR_CMPLT_EVENT \in event
    THEN invoke_upper_layer_callback(gp_pal_i2c_current_ctx, PAL_I2C_EVENT_SUCCESS)
    ELSE <<>>

HandlerTrace(event) ==
    IF CYHAL_I2C_MASTER_ERR_EVENT \in event
    THEN i2c_master_error_detected_callback(gp_pal_i2c_current_ctx)
    ELSE IF CYHAL_I2C_MASTER_WR_CMPLT_EVENT \in event
    THEN invoke_upper_layer_callback(gp_pal_i2c_current_ctx, PAL_I2C_EVENT_SUCCESS)
    ELSE IF CYHAL_I2C_MASTER_RD_CMPLT_EVENT \in event
    THEN invoke_upper_layer_callback(gp_pal_i2c_current_ctx, PAL_I2C_EVENT_SUCCESS)
    ELSE <<>>

\* The interrupt fires for the pending transfer; the driver has retired the
\* transfer by the time the handler returns.
i2c_master_event_handler(event) ==
    /\ ~fault
    /\ i2c_pending # "NONE"
    /\ i2c_irq_enabled
    /\ IF gp_pal_i2c_current_ctx = NULL
       THEN /\ fault' = TRUE
            /\ last' = Done("irq", NULL, "-", <<>>, NO_RSLT, event)
       ELSE /\ fault' = FALSE
            /\ last' = Done("irq", gp_pal_i2c_current_ctx, "-",
                             HandlerTrace(event), NO_RSLT, event)
    /\ i2c_pending' = "NONE"
    /\ txn_owner' = NULL
    /\ UNCHANGED <<pal_i2c_init_status, gp_pal_i2c_current_ctx, i2c_acquired,
                   i2c_irq_enabled, i2c_freq, init_ctx>>
    /\ UNCHANGED tvars

(***************************************************************************)
(* pal_i2c_init                                                            *)
(***************************************************************************)
\* variant: the hardware handle of the context is not checked
InitGuard_NoHandleCheck(c) ==
    (pal_i2c_init_status = FALSE) /\ (c # NULL)

\* variant: the already-initialised check is missing
InitGuard_NoInitCheck(c) ==
    (c # NULL) /\ (p_i2c_hw_config(c) # NULL)

\* the two nested conditions that let pal_i2c_init touch the hardware
InitGuard(c) ==
    (pal_i2c_init_status = FALSE) /\ ((c # NULL) /\ (p_i2c_hw_config(c) # NULL))

pal_i2c_init(c) ==
    /\ ~fault
    /\ IF InitGuard(c)
       THEN \E r1 \in HalStepResults :
              IF r1 = CY_RSLT_SUCCESS
              THEN \E r2 \in HalStepResults :
                     IF r2 = CY_RSLT_SUCCESS
                     THEN /\ pal_i2c_init_status' = TRUE
                          /\ i2c_acquired' = TRUE
                          /\ i2c_irq_enabled' = TRUE
                          /\ i2c_pending' = "NONE"
                          /\ i2c_freq' = I2C_MASTER_FREQUENCY_HZ
                          /\ txn_owner' = NULL
                          /\ init_ctx' = c
                          /\ last' = Done("init", c, PAL_STATUS_SUCCESS,
                                          <<Hw("cyhal_i2c_init", p_i2c_hw_config(c), r1),
                                            Hw("cyhal_i2c_configure", I2C_MASTER_FREQUENCY_HZ, r2),
                                            Hw("cyhal_i2c_register_callback", p_i2c_hw_config(c), NO_RSLT),
                                            Hw("cyhal_i2c_enable_event", p_i2c_hw_config(c), NO_RSLT)>>,
                                          r2, {})
                     ELSE /\ i2c_acquired' = TRUE
                          /\ i2c_pending' = "NONE"
                          /\ txn_owner' = NULL
                          /\ last' = Done("init", c, PAL_STATUS_FAILURE,
                                          <<Hw("cyhal_i2c_init", p_i2c_hw_config(c), r1),
                                            Hw("cyhal_i2c_configure", I2C_MASTER_FREQUENCY_HZ, r2)>>,
                                          r2, {})
                          /\ UNCHANGED <<pal_i2c_init_status, i2c_irq_enabled,
                                         i2c_freq, init_ctx>>
              ELSE /\ last' = Done("init", c, PAL_STATUS_FAILURE,
                                   <<Hw("cyhal_i2c_init", p_i2c_hw_config(c), r1)>>, r1, {})
                   /\ UNCHANGED <<pal_i2c_init_status, i2c_acquired, i2c_irq_enabled,
                                  i2c_pending, i2c_freq, txn_owner, init_ctx>>
       ELSE /\ last' = Done("init", c, PAL_STATUS_FAILURE, <<>>, NO_RSLT, {})
            /\ UNCHANGED <<pal_i2c_init_status, i2c_acquired, i2c_irq_enabled,
                           i2c_pending, i2c_freq, txn_owner, init_ctx>>
    /\ UNCHANGED <<gp_pal_i2c_current_ctx, fault>>
    /\ UNCHANGED tvars

(***************************************************************************)
(* pal_i2c_deinit                                                          *)
(***************************************************************************)
\* variant: the handle is freed without testing the initialised flag
pal_i2c_deinit_NoInitCheck(c) ==
    /\ ~fault
    /\ IF (c # NULL) /\ (p_i2c_hw_config(c) # NULL)
       THEN /\ pal_i2c_init_status' = FALSE
            /\ i2c_acquired' = FALSE
            /\ i2c_irq_enabled' = FALSE
            /\ i2c_pending' = "NONE"
            /\ txn_owner' = NULL
            /\ last' = Done("deinit", c, PAL_STATUS_SUCCESS,
                            <<Hw("cyhal_i2c_free", p_i2c_hw_config(c), NO_RSLT)>>, NO_RSLT, {})
       ELSE /\ last' = Done("deinit", c, PAL_STATUS_FAILURE, <<>>, NO_RSLT, {})
            /\ UNCHANGED <<pal_i2c_init_status, i2c_acquired, i2c_irq_enabled,
                           i2c_pending, txn_owner>>
    /\ UNCHANGED <<gp_pal_i2c_current_ctx, i2c_freq, init_ctx, fault>>
    /\ UNCHANGED tvars

\* variant: the handle is freed but the initialised flag is left set
pal_i2c_deinit_KeepsFlag(c) ==
    /\ ~fault
    /\ IF pal_i2c_init_status = TRUE /\ (c # NULL) /\ (p_i2c_hw_config(c) # NULL)
       THEN /\ i2c_acquired' = FALSE
            /\ i2c_irq_enabled' = FALSE
            /\ i2c_pending' = "NONE"
            /\ txn_owner' = NULL
            /\ last' = Done("deinit", c, PAL_STATUS_SUCCESS,
                            <<Hw("cyhal_i2c_free", p_i2c_hw_config(c), NO_RSLT)>>, NO_RSLT, {})
       ELSE /\ last' = Done("deinit", c, PAL_STATUS_FAILURE, <<>>, NO_RSLT, {})
            /\ UNCHANGED <<i2c_acquired, i2c_irq_enabled, i2c_pending, txn_owner>>
    /\ UNCHANGED <<pal_i2c_init_status, gp_pal_i2c_current_ctx, i2c_freq, init_ctx, fault>>
    /\ UNCHANGED tvars

pal_i2c_deinit(c) ==
    /\ ~fault
    /\ IF pal_i2c_init_status = TRUE /\ (c # NULL) /\ (p_i2c_hw_config(c) # NULL)
       THEN /\ pal_i2c_init_status' = FALSE
            /\ i2c_acquired' = FALSE
            /\ i2c_irq_enabled' = FALSE
            /\ i2c_pending' = "NONE"
            /\ txn_owner' = NULL
            /\ last' = Done("deinit", c, PAL_STATUS_SUCCESS,
                            <<Hw("cyhal_i2c_free", p_i2c_hw_config(c), NO_RSLT)>>, NO_RSLT, {})
       ELSE /\ last' = Done("deinit", c, PAL_STATUS_FAILURE, <<>>, NO_RSLT, {})
            /\ UNCHANGED <<pal_i2c_init_status, i2c_acquired, i2c_irq_enabled,
                           i2c_pending, txn_owner>>
    /\ UNCHANGED <<gp_pal_i2c_current_ctx, i2c_freq, init_ctx, fault>>
    /\ UNCHANGED tvars

(***************************************************************************)
(* Reading a field through a null context pointer is undefined: the read   *)
(* either faults or yields an arbitrary value.                             *)
(***************************************************************************)
WildPtr == 0 - 3
\* contexts the transfer APIs are called with: the handler is initialised
\* (documented precondition), the pointer or the handle may be null
TransferCtx == {NULL} \cup GoodCtx \cup {BadCtx}

\* variant: the driver's result is not examined
TransferAccepted_Unchecked(rslt) == TRUE

\* the test `rslt == CY_RSLT_SUCCESS` of pal_i2c_write / pal_i2c_read
TransferAccepted(rslt) == rslt = CY_RSLT_SUCCESS

\* What decides the outcome of a transfer call besides the mediator state:
\* the driver's result when the context is usable, and on the null-input path
\* whether the read through the context pointer faults.
TransferChoices(c) ==
    IF (c # NULL) /\ (p_i2c_hw_config(c) # NULL) THEN TransferResults
    ELSE IF c = NULL THEN {FAULT, NO_RSLT}
    ELSE {NO_RSLT}

\* A transfer call takes effect: `o` is what the function did (return status,
\* trace, driver result, value left in the current-context slot, whether the
\* driver accepted a transfer, whether the processor faulted).
ApplyTransfer(op, dir, c, o) ==
    /\ gp_pal_i2c_current_ctx' = o.gp
    /\ fault' = o.fault
    /\ i2c_pending' = IF o.accepted THEN dir ELSE i2c_pending
    /\ txn_owner' = IF o.accepted THEN c ELSE txn_owner
    /\ last' = Done(op, c, o.ret, o.trace, o.rslt, {})
    /\ UNCHANGED <<pal_i2c_init_status, i2c_acquired, i2c_irq_enabled, i2c_freq,
                   init_ctx>>
    /\ UNCHANGED tvars

(***************************************************************************)
(* pal_i2c_write                                                           *)
(***************************************************************************)
\* variant: a call the driver rejects empties the current-context slot
pal_i2c_write_outcome_ClearsOnReject(c, u) ==
    IF (c # NULL) /\ (p_i2c_hw_config(c) # NULL)
    THEN LET call == Hw("cyhal_i2c_master_transfer_async_tx", p_i2c_hw_config(c), u) IN
         IF u = FAULT
         THEN [ret |-> "-", trace |-> <<call>>, rslt |-> u, gp |-> c,
               accepted |-> FALSE, fault |-> TRUE]
         ELSE IF TransferAccepted(u)
         THEN [ret |-> PAL_STATUS_SUCCESS, trace |-> <<call>>, rslt |-> u, gp |-> c,
               accepted |-> TRUE, fault |-> FALSE]
         ELSE [ret |-> get_status(u),
               trace |-> <<call, Cb(upper_layer_event_handler(c), p_upper_layer_ctx(c),
                                    PAL_I2C_EVENT_ERROR)>>,
               rslt |-> u, gp |-> NULL, accepted |-> FALSE, fault |-> FALSE]
    ELSE IF c = NULL
    THEN IF u = FAULT
         THEN [ret |-> "-", trace |-> <<>>, rslt |-> NO_RSLT,
               gp |-> gp_pal_i2c_current_ctx, accepted |-> FALSE, fault |-> TRUE]
         ELSE [ret |-> PAL_STATUS_I2C_BUSY,
               trace |-> <<Cb(WildPtr, WildPtr, PAL_I2C_EVENT_BUSY)>>, rslt |-> NO_RSLT,
               gp |-> gp_pal_i2c_current_ctx, accepted |-> FALSE, fault |-> FALSE]
    ELSE [ret |-> PAL_STATUS_I2C_BUSY,
          trace |-> <<Cb(upper_layer_event_handler(c), p_upper_layer_ctx(c),
                         PAL_I2C_EVENT_BUSY)>>,
          rslt |-> NO_RSLT, gp |-> gp_pal_i2c_current_ctx, accepted |-> FALSE,
          fault |-> FALSE]

pal_i2c_write_outcome(c, u) ==
    IF (c # NULL) /\ (p_i2c_hw_config(c) # NULL)
    THEN LET call == Hw("cyhal_i2c_master_transfer_async_tx", p_i2c_hw_config(c), u) IN
         IF u = FAULT
         THEN [ret |-> "-", trace |-> <<call>>, rslt |-> u, gp |-> c,
               accepted |-> FALSE, fault |-> TRUE]
         ELSE IF TransferAccepted(u)
         THEN [ret |-> PAL_STATUS_SUCCESS, trace |-> <<call>>, rslt |-> u, gp |-> c,
               accepted |-> TRUE, fault |-> FALSE]
         ELSE [ret |-> get_status(u),
               trace |-> <<call, Cb(upper_layer_event_handler(c), p_upper_layer_ctx(c),
                                    PAL_I2C_EVENT_ERROR)>>,
               rslt |-> u, gp |-> c, accepted |-> FALSE, fault |-> FALSE]
    ELSE IF c = NULL
    THEN IF u = FAULT
         THEN [ret |-> "-", trace |-> <<>>, rslt |-> NO_RSLT,
               gp |-> gp_pal_i2c_current_ctx, accepted |-> FALSE, fault |-> TRUE]
         ELSE [ret |-> PAL_STATUS_I2C_BUSY,
               trace |-> <<Cb(WildPtr, WildPtr, PAL_I2C_EVENT_BUSY)>>, rslt |-> NO_RSLT,
               gp |-> gp_pal_i2c_current_ctx, accepted |-> FALSE, fault |-> FALSE]
    ELSE [ret |-> PAL_STATUS_I2C_BUSY,
          trace |-> <<Cb(upper_layer_event_handler(c), p_upper_layer_ctx(c),
                         PAL_I2C_EVENT_BUSY)>>,
          rslt |-> NO_RSLT, gp |-> gp_pal_i2c_current_ctx, accepted |-> FALSE,
          fault |-> FALSE]

pal_i2c_write(c) ==
    /\ ~fault
    /\ \E u \in TransferChoices(c) :
         ApplyTransfer("write", "WR", c, pal_i2c_write_outcome(c, u))

(***************************************************************************)
(* pal_i2c_read                                                            *)
(***************************************************************************)
\* variant: the read path does not record the calling context
pal_i2c_read_outcome_NoCapture(c, u) ==
    LET o == pal_i2c_write_outcome(c, u) IN
    [o EXCEPT !.gp = gp_pal_i2c_current_ctx,
              !.trace = [i \in DOMAIN o.trace |->
                           IF o.trace[i].k = "hw"
                           THEN Hw("cyhal_i2c_master_transfer_async_rx",
                                   o.trace[i].a, o.trace[i].r)
                           ELSE o.trace[i]]]

pal_i2c_read_outcome(c, u) ==
    IF (c # NULL) /\ (p_i2c_hw_config(c) # NULL)
    THEN LET call == Hw("cyhal_i2c_master_transfer_async_rx", p_i2c_hw_config(c), u) IN
         IF u = FAULT
         THEN [ret |-> "-", trace |-> <<call>>, rslt |-> u, gp |-> c,
               accepted |-> FALSE, fault |-> TRUE]
         ELSE IF TransferAccepted(u)
         THEN [ret |-> PAL_STATUS_SUCCESS, trace |-> <<call>>, rslt |-> u, gp |-> c,
               accepted |-> TRUE, fault |-> FALSE]
         ELSE [ret |-> get_status(u),
               trace |-> <<call, Cb(upper_layer_event_handler(c), p_upper_layer_ctx(c),
                                    PAL_I2C_EVENT_ERROR)>>,
               rslt |-> u, gp |-> c, accepted |-> FALSE, fault |-> FALSE]
    ELSE IF c = NULL
    THEN IF u = FAULT
         THEN [ret |-> "-", trace |-> <<>>, rslt |-> NO_RSLT,
               gp |-> gp_pal_i2c_current_ctx, accepted |-> FALSE, fault |-> TRUE]
         ELSE [ret |-> PAL_STATUS_I2C_BUSY,
               trace |-> <<Cb(WildPtr, WildPtr, PAL_I2C_EVENT_BUSY)>>, rslt |-> NO_RSLT,
               gp |-> gp_pal_i2c_current_ctx, accepted |-> FALSE, fault |-> FALSE]
    ELSE [ret |-> PAL_STATUS_I2C_BUSY,
          trace |-> <<Cb(upper_layer_event_handler(c), p_upper_layer_ctx(c),
                         PAL_I2C_EVENT_BUSY)>>,
          rslt |-> NO_RSLT, gp |-> gp_pal_i2c_current_ctx, accepted |-> FALSE,
          fault |-> FALSE]

pal_i2c_read(c) ==
    /\ ~fault
    /\ \E u \in TransferChoices(c) :
         ApplyTransfer("read", "RD", c, pal_i2c_read_outcome(c, u))

(***************************************************************************)
(* pal_i2c_set_bitrate                                                     *)
(***************************************************************************)
\* requested rates in kHz (uint16_t)
Bitrates == {PAL_I2C_MASTER_MAX_BITRATE - 1, PAL_I2C_MASTER_MAX_BITRATE,
             PAL_I2C_MASTER_MAX_BITRATE + 1, (2 ^ 16) - 1}

\* variant: the requested rate is used as it is
ClampBitrate_None(bitrate) == bitrate

ClampBitrate(bitrate) ==
    IF bitrate > PAL_I2C_MASTER_MAX_BITRATE THEN PAL_I2C_MASTER_MAX_BITRATE ELSE bitrate

\* variant: the handler is called without testing that one is registered
BitrateCallback_NoNullCheck(c, event) ==
    <<Cb(upper_layer_event_handler(c), p_upper_layer_ctx(c), event)>>

BitrateCallback(c, event) ==
    IF upper_layer_event_handler(c) # NULL
    THEN <<Cb(upper_layer_event_handler(c), p_upper_layer_ctx(c), event)>>
    ELSE <<>>

\* variant: the call records its context in the current-context slot
pal_i2c_set_bitrate_CapturesCtx(c, bitrate) ==
    /\ ~fault
    /\ IF (c # NULL) /\ (p_i2c_hw_config(c) # NULL)
       THEN LET hz == ClampBitrate(bitrate) * 1000 IN
            \E setDataRate \in DividerResults(hz) :
               LET call == Hw("_cyhal_i2c_set_peri_divider", hz, setDataRate) IN
               IF setDataRate = FAULT
               THEN /\ fault' = TRUE
                    /\ last' = [Done("set_bitrate", c, "-", <<call>>, setDataRate, {}) EXCEPT !.arg = bitrate]
                    /\ UNCHANGED i2c_freq
               ELSE IF setDataRate = 0
               THEN /\ fault' = FALSE
                    /\ last' = [Done("set_bitrate", c, PAL_STATUS_FAILURE,
                                    <<call>> \o BitrateCallback(c, PAL_I2C_EVENT_ERROR),
                                    setDataRate, {}) EXCEPT !.arg = bitrate]
                    /\ UNCHANGED i2c_freq
               ELSE /\ fault' = FALSE
                    /\ i2c_freq' = setDataRate
                    /\ last' = [Done("set_bitrate", c, PAL_STATUS_SUCCESS,
                                    <<call>> \o BitrateCallback(c, PAL_I2C_EVENT_SUCCESS),
                                    setDataRate, {}) EXCEPT !.arg = bitrate]
       ELSE \* the master object is fetched through the context before the
            \* null check: the fetch faults or yields garbage that is not used
            /\ \/ /\ fault' = TRUE
                  /\ last' = [Done("set_bitrate", c, "-", <<>>, NO_RSLT, {}) EXCEPT !.arg = bitrate]
               \/ /\ fault' = FALSE
                  /\ last' = [Done("set_bitrate", c, PAL_STATUS_FAILURE, <<>>, NO_RSLT, {}) EXCEPT !.arg = bitrate]
            /\ UNCHANGED i2c_freq
    /\ gp_pal_i2c_current_ctx' = c
    /\ UNCHANGED <<pal_i2c_init_status, i2c_acquired,
                   i2c_irq_enabled, i2c_pending, txn_owner, init_ctx>>
    /\ UNCHANGED tvars

pal_i2c_set_bitrate(c, bitrate) ==
    /\ ~fault
    /\ IF (c # NULL) /\ (p_i2c_hw_config(c) # NULL)
       THEN LET hz == ClampBitrate(bitrate) * 1000 IN
            \E setDataRate \in DividerResults(hz) :
               LET call == Hw("_cyhal_i2c_set_peri_divider", hz, setDataRate) IN
               IF setDataRate = FAULT
               THEN /\ fault' = TRUE
                    /\ last' = [Done("set_bitrate", c, "-", <<call>>, setDataRate, {}) EXCEPT !.arg = bitrate]
                    /\ UNCHANGED i2c_freq
               ELSE IF setDataRate = 0
               THEN /\ fault' = FALSE
                    /\ last' = [Done("set_bitrate", c, PAL_STATUS_FAILURE,
                                    <<call>> \o BitrateCallback(c, PAL_I2C_EVENT_ERROR),
                                    setDataRate, {}) EXCEPT !.arg = bitrate]
                    /\ UNCHANGED i2c_freq
               ELSE /\ fault' = FALSE
                    /\ i2c_freq' = setDataRate
                    /\ last' = [Done("set_bitrate", c, PAL_STATUS_SUCCESS,
                                    <<call>> \o BitrateCallback(c, PAL_I2C_EVENT_SUCCESS),
                                    setDataRate, {}) EXCEPT !.arg = bitrate]
       ELSE \* the master object is fetched through the context before the
            \* null check: the fetch faults or yields garbage that is not used
            /\ \/ /\ fault' = TRUE
                  /\ last' = [Done("set_bitrate", c, "-", <<>>, NO_RSLT, {}) EXCEPT !.arg = bitrate]
               \/ /\ fault' = FALSE
                  /\ last' = [Done("set_bitrate", c, PAL_STATUS_FAILURE, <<>>, NO_RSLT, {}) EXCEPT !.arg = bitrate]
            /\ UNCHANGED i2c_freq
    /\ UNCHANGED <<pal_i2c_init_status, gp_pal_i2c_current_ctx, i2c_acquired,
                   i2c_irq_enabled, i2c_pending, txn_owner, init_ctx>>
    /\ UNCHANGED tvars

(***************************************************************************)
(* Specification                                                           *)
(***************************************************************************)
Next ==
    \/ \E c \in CtxPtr : pal_i2c_init(c)
    \/ \E c \in CtxPtr : pal_i2c_deinit(c)
    \/ \E c \in TransferCtx : pal_i2c_write(c)
    \/ \E c \in TransferCtx : pal_i2c_read(c)
    \/ \E c \in CtxPtr : \E b \in Bitrates : pal_i2c_set_bitrate(c, b)
    \/ \E event \in EventMasks : i2c_master_event_handler(event)

Spec == Init /\ [][Next]_vars

(***************************************************************************)
(* pal_os_timer.c: the hardware timer and isr_timer                        *)
(***************************************************************************)
\* wraps of the counter since the behaviour started
Wraps ==
    CHOOSE w \in 0..MaxWraps : U32Sub(seconds_count, U32(w)) \in StartSeconds

\* the counter counts on within its period
timer_counts ==
    /\ \E v \in CounterSamples : v > timer_count /\ timer_count' = v
    /\ UNCHANGED <<seconds_count, operand_order, fg, time_last, tlast>>
    /\ UNCHANGED vars

\* the counter reaches its period and wraps to 0; the interrupt is taken at
\* once and isr_timer increments seconds_count
isr_timer ==
    /\ Wraps < MaxWraps
    /\ timer_count = TIMER_PERIOD - 1
    /\ timer_count' = 0
    /\ seconds_count' = U32Add(seconds_count, U32(1))
    /\ UNCHANGED <<operand_order, fg, time_last, tlast>>
    /\ UNCHANGED vars

(***************************************************************************)
(* pal_os_timer_get_time_in_milliseconds: the sum of line 79 reads         *)
(* cyhal_timer_read() and seconds_count one after the other, in the order  *)
(* the build chose.                                                        *)
(***************************************************************************)
ToNat(a) == (a.hi * HALF) + a.lo

Milliseconds(counter, seconds) ==
    U32Add(U32(counter \div 1000), U32Mul(seconds, 1000))

\* the operand that is read first
FirstRead ==
    IF operand_order = "counter" THEN U32(timer_count) ELSE seconds_count

\* the read of the other operand, and the sum
time_in_milliseconds(first) ==
    IF operand_order = "counter"
    THEN Milliseconds(ToNat(first), seconds_count)
    ELSE Milliseconds(timer_count, first)

\* a call from the application: entry and first read
pal_os_timer_get_time_in_milliseconds ==
    /\ fg.at = "idle"
    /\ fg' = [FgIdle EXCEPT !.at = "get", !.first = FirstRead]
    /\ UNCHANGED <<seconds_count, timer_count, operand_order, time_last, tlast>>
    /\ UNCHANGED vars

\* lines 96-100: the difference of the two time stamps
DelayDiff(start_time, current_time) ==
    LET time_stamp_diff == U32Sub(current_time, start_time) IN
    IF U32Less(current_time, start_time)
    THEN U32Add(U32Add(UINT32_MAX, U32Sub(current_time, start_time)), U32(1))
    ELSE time_stamp_diff

\* second read and return, to the application or into the delay loop
get_time_return ==
    /\ fg.at \in {"get", "delay_start", "delay_poll"}
    /\ LET t == time_in_milliseconds(fg.first) IN
       /\ time_last' = t
       /\ tlast' = [op |-> "get", prev |-> time_last, ret |-> t, ms |-> 0,
                    elapsed_us |-> 0]
       /\ fg' = IF fg.at = "get" THEN FgIdle
                ELSE IF fg.at = "delay_start"
                THEN [fg EXCEPT !.at = "delay_test", !.first = U32(0),
                                !.start_time = t,
                                !.time_stamp_diff = U32Sub(t, t)]
                ELSE [fg EXCEPT !.at = "delay_test", !.first = U32(0),
                                !.time_stamp_diff = DelayDiff(fg.start_time, t)]
    /\ UNCHANGED <<seconds_count, timer_count, operand_order>>
    /\ UNCHANGED vars

(***************************************************************************)
(* pal_os_timer_delay_in_milliseconds                                      *)
(***************************************************************************)
\* entry, and the first read of the call at line 90
pal_os_timer_delay_in_milliseconds(milliseconds) ==
    /\ fg.at = "idle"
    /\ fg' = [FgIdle EXCEPT !.at = "delay_start", !.first = FirstRead,
                            !.ms = milliseconds,
                            !.began = [sec |-> seconds_count, cnt |-> timer_count]]
    /\ UNCHANGED <<seconds_count, timer_count, operand_order, time_last, tlast>>
    /\ UNCHANGED vars

\* the loop test of line 93: another call of get_time, or the return
delay_loop ==
    /\ fg.at = "delay_test"
    /\ IF ~U32Less(U32(fg.ms), fg.time_stamp_diff)
       THEN /\ fg' = [fg EXCEPT !.at = "delay_poll", !.first = FirstRead]
            /\ UNCHANGED tlast
       ELSE /\ fg' = FgIdle
            /\ tlast' = [op |-> "delay", prev |-> NO_TIME, ret |-> U32(0),
                         ms |-> fg.ms,
                         elapsed_us |->
                            (ToNat(U32Sub(seconds_count, fg.began.sec)) * TIMER_PERIOD)
                            + timer_count - fg.began.cnt]
    /\ UNCHANGED <<seconds_count, timer_count, operand_order, time_last>>
    /\ UNCHANGED vars

TimerInit ==
    /\ I2cInit
    /\ seconds_count \in StartSeconds
    /\ operand_order \in EvalOrders
    /\ TimerIdle

TimerNext ==
    \/ timer_counts
    \/ isr_timer
    \/ pal_os_timer_get_time_in_milliseconds
    \/ get_time_return
    \/ \E milliseconds \in DelayArgs : pal_os_timer_delay_in_milliseconds(milliseconds)
    \/ delay_loop

TimerSpec == TimerInit /\ [][TimerNext]_tvars

TypeOK ==
    /\ pal_i2c_init_status \in BOOLEAN
    /\ gp_pal_i2c_current_ctx \in CtxPtr
    /\ i2c_acquired \in BOOLEAN
    /\ i2c_irq_enabled \in BOOLEAN
    /\ i2c_pending \in {"NONE", "WR", "RD"}
    /\ i2c_freq \in Nat
    /\ txn_owner \in CtxPtr
    /\ init_ctx \in CtxPtr
    /\ fault \in BOOLEAN

(***************************************************************************)
(* Properties                                                              *)
(***************************************************************************)
IsTransfer(l) == l.op \in {"write", "read"}
Returned(l) == l.ret \in PalStatus
CbOf(c, event) == Cb(upper_layer_event_handler(c), p_upper_layer_ctx(c), event)

\* C1: at most one transaction is in flight: a write or read issued while an
\* earlier accepted transfer is unresolved does not return Success and does
\* not start a second hardware transfer (the pending transfer and its owner
\* stay what they were).
C1_SingleTransaction ==
    (IsTransfer(last) /\ last.pending # "NONE")
        => /\ last.ret # PAL_STATUS_SUCCESS
           /\ i2c_pending = last.pending
           /\ txn_owner = last.owner

C1_Witness ==
    /\ last.op = "write"
    /\ last.inited
    /\ last.pending = "RD"
    /\ last.ret = PAL_STATUS_I2C_BUSY
    /\ i2c_pending = "RD"

\* C2: after init, a write the hardware accepts returns Success and makes no
\* upper-layer callback inside the call; when the write-complete interrupt
\* (no error flag) then fires, the callback of the writing context is
\* invoked exactly once, with event Success.
C2_WriteThenComplete ==
    [][ /\ ( /\ last'.op = "write"
             /\ pal_i2c_init_status
             /\ last'.ctx \in GoodCtx
             /\ last'.rslt = CY_RSLT_SUCCESS )
            => ( /\ last'.ret = PAL_STATUS_SUCCESS
                 /\ Callbacks(last'.trace) = <<>> )
        /\ ( /\ last.op = "write"
             /\ last.inited
             /\ last.ret = PAL_STATUS_SUCCESS
             /\ last'.op = "irq"
             /\ CYHAL_I2C_MASTER_WR_CMPLT_EVENT \in last'.ev
             /\ CYHAL_I2C_MASTER_ERR_EVENT \notin last'.ev )
            => last'.trace = <<CbOf(last.ctx, PAL_I2C_EVENT_SUCCESS)>>
      ]_vars

C2_Witness ==
    /\ last.op = "irq"
    /\ last.inited
    /\ last.pending = "WR"
    /\ last.ev = {CYHAL_I2C_MASTER_WR_CMPLT_EVENT}
    /\ last.ctx = last.owner
    /\ last.trace = <<CbOf(last.owner, PAL_I2C_EVENT_SUCCESS)>>

\* C3: every write/read call with a usable context gets exactly one
\* upper-layer callback on its behalf: a call the hardware rejects gets it
\* inside the call, a call the hardware accepts gets none inside the call and
\* the one made by the interrupt handler, which therefore goes to the context
\* whose transfer was accepted.
C3_OneCallbackPerCall ==
    /\ (IsTransfer(last) /\ last.ctx \in GoodCtx /\ Returned(last))
          => IF last.rslt = CY_RSLT_SUCCESS
             THEN Callbacks(last.trace) = <<>>
             ELSE /\ Len(Callbacks(last.trace)) = 1
                  /\ Callbacks(last.trace)[1].h = upper_layer_event_handler(last.ctx)
    /\ (last.op = "irq")
          => /\ Len(Callbacks(last.trace)) = 1
             /\ Callbacks(last.trace)[1].h = upper_layer_event_handler(last.owner)
             /\ Callbacks(last.trace)[1].a = p_upper_layer_ctx(last.owner)

\* C4: a write or read the hardware rejects with sub-code c returns Failure
\* and makes exactly one callback, with event Error, for c in {0,1,2,3,5},
\* and returns Busy for c = 4; write and read classify alike.
C4_RejectionClassification ==
    (IsTransfer(last) /\ Returned(last) /\ last.rslt \notin {CY_RSLT_SUCCESS, NO_RSLT})
        => LET c == CY_RSLT_GET_CODE(last.rslt) IN
           /\ (c \in {0, 1, 2, 3, 5})
                 => /\ last.ret = PAL_STATUS_FAILURE
                    /\ Callbacks(last.trace) = <<CbOf(last.ctx, PAL_I2C_EVENT_ERROR)>>
           /\ (c = 4) => last.ret = PAL_STATUS_I2C_BUSY

C4_Witness ==
    /\ last.op = "read"
    /\ last.inited
    /\ last.rslt = I2cError(5)
    /\ last.ret = PAL_STATUS_FAILURE
    /\ Callbacks(last.trace) = <<CbOf(last.ctx, PAL_I2C_EVENT_ERROR)>>

\* C5: a write or read issued while an accepted transfer has not completed
\* returns PAL_STATUS_I2C_BUSY and invokes the upper-layer callback with
\* event PAL_I2C_EVENT_BUSY.
C5_BusyEventWhileBusy ==
    ( /\ IsTransfer(last)
      /\ last.inited
      /\ last.ctx \in GoodCtx
      /\ Returned(last)
      /\ last.pending # "NONE" )
        => /\ last.ret = PAL_STATUS_I2C_BUSY
           /\ Callbacks(last.trace) = <<CbOf(last.ctx, PAL_I2C_EVENT_BUSY)>>

\* C6: an error interrupt arriving while a transfer is in flight makes the
\* handler abort the hardware transfer first and only then invoke the
\* upper-layer callback, with event Error; the handler makes no Success
\* callback and the transfer is retired, so none follows for it.
C6_ErrorAbortsThenReports ==
    ( /\ last.op = "irq"
      /\ last.pending # "NONE"
      /\ CYHAL_I2C_MASTER_ERR_EVENT \in last.ev )
        => /\ Len(last.trace) = 2
           /\ last.trace[1] = Hw("cyhal_i2c_abort_async", MasterObj, NO_RSLT)
           /\ last.trace[2].k = "cb"
           /\ last.trace[2].e = PAL_I2C_EVENT_ERROR
           /\ \A i \in DOMAIN last.trace : last.trace[i].e # PAL_I2C_EVENT_SUCCESS
           /\ i2c_pending = "NONE"

C6_Witness ==
    /\ last.op = "irq"
    /\ last.pending = "WR"
    /\ last.ev = {CYHAL_I2C_MASTER_ERR_EVENT, CYHAL_I2C_MASTER_WR_CMPLT_EVENT}
    /\ Len(last.trace) = 2
    /\ last.trace[1].f = "cyhal_i2c_abort_async"
    /\ last.trace[2] = CbOf(last.owner, PAL_I2C_EVENT_ERROR)

\* C7: after a successful deinit, a write or read with the context the bus
\* was initialised with is rejected: it does not return Success and makes no
\* transfer call on the released hardware handle.
C7_NoTransferAfterDeinit ==
    ( /\ IsTransfer(last)
      /\ init_ctx # NULL
      /\ last.ctx = init_ctx
      /\ ~last.inited
      /\ ~last.acquired )
        => /\ last.ret # PAL_STATUS_SUCCESS
           /\ HwCalls(last.trace) = <<>>

StepSucceeded(l, f) ==
    \E i \in DOMAIN l.trace : l.trace[i].f = f /\ l.trace[i].r = CY_RSLT_SUCCESS

C9_InitSuccessIff ==
    (last.op = "init")
        => /\ last.ret \in {PAL_STATUS_SUCCESS, PAL_STATUS_FAILURE}
           /\ (last.ret = PAL_STATUS_SUCCESS)
                 <=> ( /\ ~last.inited
                       /\ last.ctx # NULL
                       /\ p_i2c_hw_config(last.ctx) # NULL
                       /\ StepSucceeded(last, "cyhal_i2c_init")
                       /\ StepSucceeded(last, "cyhal_i2c_configure") )
           /\ pal_i2c_init_status = (last.inited \/ last.ret = PAL_STATUS_SUCCESS)

C9_Witness ==
    /\ last.op = "init"
    /\ ~last.inited
    /\ last.ctx \in GoodCtx
    /\ StepSucceeded(last, "cyhal_i2c_init")
    /\ ~StepSucceeded(last, "cyhal_i2c_configure")
    /\ last.ret = PAL_STATUS_FAILURE
    /\ pal_i2c_init_status = FALSE

\* C10: an init call made while the bus is initialised returns Failure, makes
\* no driver call and leaves the initialised flag, the current-context slot
\* and the driver state as they were.
C10_ReinitTouchesNothing ==
    [][ (pal_i2c_init_status /\ last'.op = "init")
          => /\ last'.ret = PAL_STATUS_FAILURE
             /\ last'.trace = <<>>
             /\ UNCHANGED <<pal_i2c_init_status, gp_pal_i2c_current_ctx,
                            i2c_acquired, i2c_irq_enabled, i2c_pending,
                            i2c_freq, txn_owner>>
      ]_vars

C10_Witness ==
    /\ last.op = "init"
    /\ last.inited
    /\ last.ctx \in GoodCtx
    /\ last.pending # "NONE"
    /\ last.ret = PAL_STATUS_FAILURE
    /\ last.trace = <<>>

UsableCtx(c) == (c # NULL) /\ (p_i2c_hw_config(c) # NULL)

\* C11: deinit returns Success exactly when the bus was initialised and the
\* handle was released, and Failure otherwise; called while the bus is not
\* initialised it returns Failure, makes no cyhal_i2c_free call and leaves the
\* initialised flag false.
C11_DeinitStatus ==
    (last.op = "deinit")
        => /\ last.ret \in {PAL_STATUS_SUCCESS, PAL_STATUS_FAILURE}
           /\ (last.ret = PAL_STATUS_SUCCESS)
                 <=> ( /\ last.inited
                       /\ last.trace = <<Hw("cyhal_i2c_free", MasterObj, NO_RSLT)>> )
           /\ (~last.inited)
                 => ( /\ last.ret = PAL_STATUS_FAILURE
                      /\ last.trace = <<>>
                      /\ pal_i2c_init_status = FALSE )

C11_Witness ==
    /\ last.op = "deinit"
    /\ ~last.inited
    /\ init_ctx # NULL
    /\ last.ctx = init_ctx
    /\ last.ret = PAL_STATUS_FAILURE
    /\ last.trace = <<>>

\* C12: write or read called with a null context, or with a context whose
\* hardware handle is null, returns Busy and synchronously invokes the
\* upper-layer callback with event Busy, issues no hardware transfer and
\* leaves the current-context slot unchanged.
C12_NullInputBusy ==
    [][ (IsTransfer(last') /\ ~UsableCtx(last'.ctx))
          => /\ ~fault'
             /\ last'.ret = PAL_STATUS_I2C_BUSY
             /\ Len(last'.trace) = 1
             /\ last'.trace[1].k = "cb"
             /\ last'.trace[1].h # WildPtr
             /\ last'.trace[1].e = PAL_I2C_EVENT_BUSY
             /\ gp_pal_i2c_current_ctx' = gp_pal_i2c_current_ctx
      ]_vars

\* C13: set_bitrate with a requested rate above 400 kHz programs the divider
\* for exactly 400 * 1000 Hz, with a rate at or below 400 kHz it programs the
\* requested rate; it returns Success when the hardware accepts the divider.
C13_BitrateClamp ==
    (last.op = "set_bitrate" /\ UsableCtx(last.ctx) /\ Returned(last))
        => LET want == IF last.arg > 400 THEN 400 * 1000 ELSE last.arg * 1000
               calls == HwCalls(last.trace) IN
           /\ Len(calls) = 1
           /\ calls[1].f = "_cyhal_i2c_set_peri_divider"
           /\ calls[1].a = want
           /\ (calls[1].r # 0) => ( /\ last.ret = PAL_STATUS_SUCCESS
                                    /\ i2c_freq = want )

C13_Witness ==
    /\ last.op = "set_bitrate"
    /\ last.ctx \in GoodCtx
    /\ last.arg = (2 ^ 16) - 1
    /\ HwCalls(last.trace)[1].a = 400 * 1000
    /\ last.ret = PAL_STATUS_SUCCESS

Undirected(o) ==
    [o EXCEPT !.trace = [i \in DOMAIN o.trace |->
                            IF o.trace[i].k = "hw"
                            THEN [o.trace[i] EXCEPT !.f = "cyhal_i2c_master_transfer_async"]
                            ELSE o.trace[i]]]

C15_ReadMirrorsWrite ==
    /\ \A c \in TransferCtx : \A u \in TransferChoices(c) :
          LET w == pal_i2c_write_outcome(c, u)
              r == pal_i2c_read_outcome(c, u) IN
          /\ Undirected(w) = Undirected(r)
          /\ UsableCtx(c)
                => /\ w.trace[1].f = "cyhal_i2c_master_transfer_async_tx"
                   /\ r.trace[1].f = "cyhal_i2c_master_transfer_async_rx"
    /\ HandlerTrace({CYHAL_I2C_MASTER_WR_CMPLT_EVENT})
          = HandlerTrace({CYHAL_I2C_MASTER_RD_CMPLT_EVENT})

C15_Witness ==
    /\ last.op = "read"
    /\ last.ret = PAL_STATUS_SUCCESS
    /\ i2c_pending = "RD"
    /\ gp_pal_i2c_current_ctx = 1
    /\ pal_i2c_write_outcome(2, I2cError(4)).ret = PAL_STATUS_I2C_BUSY
    /\ pal_i2c_read_outcome(2, I2cError(4)).ret = PAL_STATUS_I2C_BUSY
    /\ pal_i2c_read_outcome(2, I2cError(4)).gp = 2

\* C16: deinit called while an accepted transfer has not completed does not
\* de-initialise the master and returns PAL_STATUS_I2C_BUSY.
C16_DeinitWhileBusy ==
    ( /\ last.op = "deinit"
      /\ last.inited
      /\ UsableCtx(last.ctx)
      /\ last.pending # "NONE" )
        => /\ last.ret = PAL_STATUS_I2C_BUSY
           /\ pal_i2c_init_status = TRUE
           /\ i2c_acquired = TRUE
           /\ HwCalls(last.trace) = <<>>

\* C17: the completion of an accepted transfer is reported to the handler and
\* user data of the context that started it, also when a write or read of
\* another context was attempted and rejected in between; the rejected
\* caller's context does not receive that completion.
C17_CompletionToInitiator ==
    (last.op = "irq" /\ last.owner \in GoodCtx)
        => \A i \in DOMAIN last.trace :
              (last.trace[i].k = "cb")
                 => last.trace[i] \in
                       {CbOf(last.owner, PAL_I2C_EVENT_SUCCESS),
                        CbOf(last.owner, PAL_I2C_EVENT_ERROR)}

\* C18: in the interrupt handler the error flag takes precedence: for every
\* event mask that contains the error flag, with or without completion flags,
\* the handler aborts the transfer and then invokes the callback of the
\* current context with event Error, and makes no Success callback.
C18_ErrorPrecedence ==
    (last.op = "irq" /\ CYHAL_I2C_MASTER_ERR_EVENT \in last.ev)
        => last.trace = <<Hw("cyhal_i2c_abort_async", p_i2c_hw_config(last.ctx), NO_RSLT),
                          CbOf(last.ctx, PAL_I2C_EVENT_ERROR)>>

C18_Witness ==
    /\ last.op = "irq"
    /\ last.ev = EnabledEvents
    /\ last.pending = "RD"
    /\ Callbacks(last.trace) = <<CbOf(last.ctx, PAL_I2C_EVENT_ERROR)>>

C20_SlotEmptyWhenIdle ==
    (pal_i2c_init_status /\ i2c_pending = "NONE")
        => gp_pal_i2c_current_ctx = NULL

\* C21 (as claimed): once the completion or error callback of an accepted
\* transaction has fired the bus is free again and the next write/read with a
\* valid context is accepted: it returns Success.  Before the callback fires
\* every write/read is rejected.
C21_AcceptedAfterCallback ==
    [][ /\ (last.op = "irq" /\ IsTransfer(last') /\ last'.ctx \in GoodCtx)
              => last'.ret = PAL_STATUS_SUCCESS
        /\ (i2c_pending # "NONE" /\ IsTransfer(last'))
              => /\ last'.ret # PAL_STATUS_SUCCESS
                 /\ i2c_pending' = i2c_pending
      ]_vars

\* C21 (amended): once the completion or error callback of an accepted
\* transaction has fired no transfer is pending, and the next write/read with
\* a valid context is not refused as busy: it returns Success when the
\* hardware accepts the request, and Failure with one Error callback when the
\* hardware rejects it for another reason.  While the accepted transfer is
\* pending, before the callback fires, every write/read is rejected and the
\* pending transfer stays.
C21_FreeAfterCallback ==
    [][ /\ (last'.op = "irq" /\ ~fault')
              => /\ Len(Callbacks(last'.trace)) = 1
                 /\ i2c_pending' = "NONE"
        /\ (last.op = "irq" /\ IsTransfer(last') /\ last'.ctx \in GoodCtx)
              => /\ last'.rslt # I2cError(4)
                 /\ last'.ret \in {PAL_STATUS_SUCCESS, PAL_STATUS_FAILURE}
                 /\ (last'.ret = PAL_STATUS_SUCCESS) <=> (last'.rslt = CY_RSLT_SUCCESS)
                 /\ (last'.ret = PAL_STATUS_SUCCESS) => (i2c_pending' # "NONE")
                 /\ (last'.ret = PAL_STATUS_FAILURE)
                       => Callbacks(last'.trace) = <<CbOf(last'.ctx, PAL_I2C_EVENT_ERROR)>>
        /\ (i2c_pending # "NONE" /\ IsTransfer(last'))
              => /\ last'.ret # PAL_STATUS_SUCCESS
                 /\ i2c_pending' = i2c_pending
      ]_vars

\* the callback of an accepted read has just fired and a write of the other
\* context, made now, is accepted
C21_Witness ==
    /\ last.op = "irq"
    /\ last.pending = "RD"
    /\ last.owner = 1
    /\ Len(Callbacks(last.trace)) = 1
    /\ i2c_pending = "NONE"
    /\ CY_RSLT_SUCCESS \in TransferChoices(2)
    /\ pal_i2c_write_outcome(2, CY_RSLT_SUCCESS).ret = PAL_STATUS_SUCCESS
    /\ pal_i2c_write_outcome(2, CY_RSLT_SUCCESS).accepted

\* C22: pal_i2c_set_bitrate is synchronous and takes no part in the
\* transaction state machine: it leaves the pending transfer, its owner, the
\* current-context slot, the initialised flag and the interrupt enabling as
\* they were, makes no transfer call, and makes its callback (at most one, to
\* the handler of its own context) inside the call; an interrupt that follows
\* it belongs to a transfer that was pending before it.
C22_BitrateOutsideTransactions ==
    [][ /\ (last'.op = "set_bitrate")
              => /\ UNCHANGED <<i2c_pending, txn_owner, gp_pal_i2c_current_ctx,
                                pal_i2c_init_status, i2c_irq_enabled, i2c_acquired>>
                 /\ \A i \in DOMAIN last'.trace :
                       /\ (last'.trace[i].k = "hw")
                             => last'.trace[i].f = "_cyhal_i2c_set_peri_divider"
                       /\ (last'.trace[i].k = "cb")
                             => /\ i = Len(last'.trace)
                                /\ last'.trace[i].h = upper_layer_event_handler(last'.ctx)
                                /\ last'.trace[i].a = p_upper_layer_ctx(last'.ctx)
                 /\ Len(Callbacks(last'.trace)) <= 1
        /\ (last.op = "set_bitrate" /\ last'.op = "irq")
              => /\ last.pending # "NONE"
                 /\ last'.ctx = gp_pal_i2c_current_ctx
      ]_vars

C22_Witness ==
    /\ last.op = "set_bitrate"
    /\ last.ctx = 2
    /\ last.ret = PAL_STATUS_SUCCESS
    /\ Callbacks(last.trace) = <<CbOf(2, PAL_I2C_EVENT_SUCCESS)>>
    /\ last.pending = "WR"
    /\ i2c_pending = "WR"
    /\ txn_owner = 1
    /\ gp_pal_i2c_current_ctx = 1

\* C23: the mediator enforces no timeout.  While a transfer accepted on the
\* initialised bus is pending and no interrupt arrives, every operation other
\* than deinit leaves it pending with the same owner: every write/read that
\* returns is rejected with Busy, its only callback is the rejection callback
\* of the calling context, no operation aborts the transfer or reports a
\* completion, and a repeated init changes nothing.  A deinit with a usable
\* context ends the pending transfer, without a callback.
Stuck == pal_i2c_init_status /\ i2c_pending # "NONE"

C23_NoTimeout ==
    [][ /\ (Stuck /\ last'.op \notin {"irq", "deinit"})
              => /\ Stuck'
                 /\ UNCHANGED <<i2c_pending, txn_owner>>
                 /\ \A i \in DOMAIN last'.trace :
                       /\ last'.trace[i].f # "cyhal_i2c_abort_async"
                       /\ IsTransfer(last') => last'.trace[i].e # PAL_I2C_EVENT_SUCCESS
                 /\ (IsTransfer(last') /\ Returned(last'))
                       => /\ last'.ret = PAL_STATUS_I2C_BUSY
                          /\ Len(Callbacks(last'.trace)) = 1
                          /\ UsableCtx(last'.ctx)
                                => Callbacks(last'.trace)[1].h
                                      = upper_layer_event_handler(last'.ctx)
        /\ (Stuck /\ last'.op = "deinit")
              => /\ Callbacks(last'.trace) = <<>>
                 /\ UsableCtx(last'.ctx) => (i2c_pending' = "NONE" /\ ~Stuck')
                 /\ ~UsableCtx(last'.ctx) => (Stuck' /\ UNCHANGED i2c_pending)
      ]_vars

\* a second rejected call in a row: the transfer of context 1 is still pending
C23_Witness ==
    /\ Stuck
    /\ last.op = "read"
    /\ last.ctx = 2
    /\ last.pending = "WR"
    /\ last.owner = 1
    /\ last.ret = PAL_STATUS_I2C_BUSY
    /\ gp_pal_i2c_current_ctx = 2
    /\ txn_owner = 1
    /\ i2c_pending = "WR"

\* C24: whenever the interrupt handler runs for a transfer the hardware
\* accepted, the current-context slot is non-empty and refers to a context
\* with a non-null hardware handle: while a transfer is pending the slot holds
\* such a context, no operation resets a filled slot to empty, and the handler
\* makes its callback and its abort call through that context, never through
\* a null pointer.
C24_HandlerContextValid ==
    [][ /\ (gp_pal_i2c_current_ctx # NULL) => (gp_pal_i2c_current_ctx' # NULL)
        /\ (i2c_pending' # "NONE") => UsableCtx(gp_pal_i2c_current_ctx')
        /\ (last'.op = "irq")
              => /\ ~fault'
                 /\ UsableCtx(gp_pal_i2c_current_ctx)
                 /\ last'.ctx = gp_pal_i2c_current_ctx
                 /\ last'.trace # <<>>
                 /\ \A i \in DOMAIN last'.trace :
                       /\ (last'.trace[i].k = "hw") => last'.trace[i].a = MasterObj
                       /\ (last'.trace[i].k = "cb")
                             => last'.trace[i].h = upper_layer_event_handler(last'.ctx)
      ]_vars

\* the error interrupt of context 1's write arrives after a rejected call of
\* context 2 has rewritten the slot
C24_Witness ==
    /\ last.op = "irq"
    /\ last.pending = "WR"
    /\ last.owner = 1
    /\ last.ctx = 2
    /\ last.ev = {CYHAL_I2C_MASTER_ERR_EVENT}
    /\ Len(last.trace) = 2
    /\ last.trace[1].a = MasterObj
    /\ ~fault

\* C25: a pal_i2c_init that fails at any step (null context or handle,
\* cyhal_i2c_init failure, cyhal_i2c_configure failure after a successful
\* cyhal_i2c_init) leaves the mediator uninitialised and no hardware resource
\* acquired, so that a following deinit returns Failure and a following init
\* starts from a clean hardware state.
C25_FailedInitReleases ==
    ( /\ last.op = "init"
      /\ ~last.inited
      /\ ~last.acquired
      /\ last.ret = PAL_STATUS_FAILURE )
        => /\ pal_i2c_init_status = FALSE
           /\ i2c_acquired = FALSE
           /\ i2c_irq_enabled = FALSE

\* C26: the millisecond clock is monotonic under interrupt interleaving: of
\* two successive calls of pal_os_timer_get_time_in_milliseconds the second
\* never returns less than the first (modulo the wrap at 2^32), also when
\* isr_timer runs between the read of the counter and the read of
\* seconds_count; and pal_os_timer_delay_in_milliseconds never returns before
\* the requested number of milliseconds has passed.
C26_ClockMonotonic ==
    /\ (tlast.op = "get" /\ tlast.prev # NO_TIME)
          => U32Sub(tlast.ret, tlast.prev).hi < (HALF \div 2)
    /\ (tlast.op = "delay")
          => tlast.elapsed_us >= tlast.ms * 1000

====
